---- MODULE Spec2Model ----
(***************************************************************************)
(* Model of scripts/CreateNuget.py: the script reads Directory.Build.props *)
(* in text mode, bumps the last component of the dotted version on every   *)
(* line that contains "<PackageVersion>", rewrites the file in text mode   *)
(* and runs "dotnet pack".                                                 *)
(*                                                                         *)
(* Text is a sequence of one-character strings.  The file on disk is a     *)
(* sequence of bytes; lines in memory are Python str values as the text    *)
(* layer of open() delivers them (universal newlines on read, "\n" ->      *)
(* os.linesep on write).                                                   *)
(***************************************************************************)
EXTENDS Integers, Sequences, FiniteSets, TLC

\* ------------------------------------------------------------ bounds ----
MaxLines == 2
MaxRuns == 2

\* -------------------------------------------------------- characters ----
LF == "\n"
CR == "\r"
Dot == "."
Digits == <<"0", "1", "2", "3", "4", "5", "6", "7", "8", "9">>

IsDigit(c) == \E k \in 1..10 : Digits[k] = c

DigitVal(c) == (CHOOSE k \in 1..10 : Digits[k] = c) - 1

\* The literal "<PackageVersion>" of the `in` test.
Marker == <<"<", "P", "a", "c", "k", "a", "g", "e",
            "V", "e", "r", "s", "i", "o", "n", ">">>

\* --------------------------------------------------- str operations -----
\* Python `sub in s`.
Contains(s, sub) ==
  \E i \in 1..(Len(s) - Len(sub) + 1) : SubSeq(s, i, i + Len(sub) - 1) = sub

\* Index of the first occurrence of sub in s, or 0 (non-empty sub).
Find(s, sub) ==
  LET at == { i \in 1..(Len(s) - Len(sub) + 1) :
                SubSeq(s, i, i + Len(sub) - 1) = sub }
  IN IF at = {} THEN 0 ELSE CHOOSE i \in at : \A j \in at : i <= j

\* Index just past the longest run of digits of s that starts at i: [0-9]*.
DigitsEnd(s, i) ==
  CHOOSE j \in i..(Len(s) + 1) :
    /\ (j = Len(s) + 1 \/ ~IsDigit(s[j]))
    /\ \A k \in i..(j - 1) : IsDigit(s[k])

IsDotAt(s, j) == j <= Len(s) /\ s[j] = Dot

\* Last index of the match of [0-9]*\.[0-9]*\.[0-9]*\.[0-9]* anchored at i,
\* or 0 when the pattern does not match at i.
MatchEnd(s, i) ==
  LET j1 == DigitsEnd(s, i) IN
  IF ~IsDotAt(s, j1) THEN 0 ELSE
  LET j2 == DigitsEnd(s, j1 + 1) IN
  IF ~IsDotAt(s, j2) THEN 0 ELSE
  LET j3 == DigitsEnd(s, j2 + 1) IN
  IF ~IsDotAt(s, j3) THEN 0 ELSE DigitsEnd(s, j3 + 1) - 1

\* re.search: the leftmost match as <<first, last>>, or <<>> for None.
Search(s) ==
  LET at == { i \in 1..Len(s) : MatchEnd(s, i) # 0 } IN
  IF at = {} THEN <<>>
  ELSE LET i == CHOOSE i \in at : \A j \in at : i <= j
       IN <<i, MatchEnd(s, i)>>

\* old_version.split(".")
RECURSIVE Split(_)
Split(s) ==
  LET i == Find(s, <<Dot>>) IN
  IF i = 0 THEN <<s>>
  ELSE <<SubSeq(s, 1, i - 1)>> \o Split(SubSeq(s, i + 1, Len(s)))

\* ".".join(arr)
RECURSIVE Join(_)
Join(arr) ==
  IF Len(arr) = 0 THEN <<>>
  ELSE IF Len(arr) = 1 THEN arr[1]
  ELSE arr[1] \o <<Dot>> \o Join(Tail(arr))

\* int(s) for s made of decimal digits; int("") raises ValueError.
RECURSIVE IntOf(_)
IntOf(s) ==
  IF Len(s) = 0 THEN 0
  ELSE 10 * IntOf(SubSeq(s, 1, Len(s) - 1)) + DigitVal(s[Len(s)])

\* Variant of StrOf that keeps only the last digit (the carry is lost).
StrOf_LastDigit(n) == <<Digits[(n % 10) + 1]>>

\* str(n) for n >= 0.
RECURSIVE StrOf(_)
StrOf(n) ==
  IF n < 10 THEN <<Digits[n + 1]>>
  ELSE StrOf(n \div 10) \o <<Digits[(n % 10) + 1]>>

\* Variant of NewVersion that bumps the first component (index 0 for -1).
NewVersion_First(old_version) ==
  LET arr == Split(old_version) IN
  Join([arr EXCEPT ![1] = StrOf(IntOf(arr[1]) + 1)])

\* The bumped version text built from the matched text.
NewVersion(old_version) ==
  LET arr == Split(old_version) IN
  Join([arr EXCEPT ![Len(arr)] = StrOf(IntOf(arr[Len(arr)]) + 1)])

\* Variant of Replace that stops after the first occurrence (count=1).
Replace_Once(s, old, new) ==
  LET i == Find(s, old) IN
  IF i = 0 THEN s
  ELSE SubSeq(s, 1, i - 1) \o new \o SubSeq(s, i + Len(old), Len(s))

\* s.replace(old, new) with non-empty old: every occurrence found scanning
\* from the left, each search starting after the previous occurrence.
RECURSIVE Replace(_, _, _)
Replace(s, old, new) ==
  LET i == Find(s, old) IN
  IF i = 0 THEN s
  ELSE SubSeq(s, 1, i - 1) \o new
         \o Replace(SubSeq(s, i + Len(old), Len(s)), old, new)

\* Outcome of the body of `if "<PackageVersion>" in line:` for one line:
\* the exception it raises, or the rewritten line.
BumpLine(line) ==
  LET match == Search(line) IN
  IF match = <<>> THEN [err |-> "AttributeError", line |-> line]
  ELSE LET old_version == SubSeq(line, match[1], match[2])
           arr == Split(old_version)
       IN IF arr[Len(arr)] = <<>>
          THEN [err |-> "ValueError", line |-> line]
          ELSE [err |-> "none",
                line |-> Replace(line, old_version, NewVersion(old_version))]

\* Variant of ProcessLine without the marker test: every line is bumped.
ProcessLine_NoTest(line) == BumpLine(line)

\* One iteration of the loop body up to data.append.
ProcessLine(line) ==
  IF Contains(line, Marker) THEN BumpLine(line)
  ELSE [err |-> "none", line |-> line]

\* ------------------------------------------------- text layer of open() -
\* Reading with newline=None: "\r\n" and "\r" are delivered as "\n".
RECURSIVE Decode(_)
Decode(b) ==
  LET i == Find(b, <<CR>>) IN
  IF i = 0 THEN b
  ELSE SubSeq(b, 1, i - 1) \o <<LF>>
         \o Decode(SubSeq(b, (IF i < Len(b) /\ b[i + 1] = LF
                              THEN i + 2 ELSE i + 1), Len(b)))

\* readlines() on decoded text: every line keeps its "\n".
RECURSIVE SplitLines(_)
SplitLines(t) ==
  LET i == Find(t, <<LF>>) IN
  IF Len(t) = 0 THEN <<>>
  ELSE IF i = 0 THEN <<t>>
  ELSE <<SubSeq(t, 1, i)>> \o SplitLines(SubSeq(t, i + 1, Len(t)))

ReadLines(b) == SplitLines(Decode(b))

\* Writing with newline=None: every "\n" is stored as os.linesep.
RECURSIVE Encode(_, _)
Encode(t, sep) ==
  LET i == Find(t, <<LF>>) IN
  IF i = 0 THEN t
  ELSE SubSeq(t, 1, i - 1) \o sep \o Encode(SubSeq(t, i + 1, Len(t)), sep)

\* subprocess.run is called without check=True.
Check == FALSE

\* The exception subprocess.run raises for an outcome of the command.
RunRaises(outcome) ==
  IF outcome = "nostart" THEN "FileNotFoundError"
  ELSE IF outcome = "nonzero" /\ Check THEN "CalledProcessError"
  ELSE "none"

\* ------------------------------------------------------------ inputs ----
\* Text that follows the version on a line.
CloseTag == <<"<", "/", "P", ">">>

\* Marker lines that hold one well-formed version: the text before the
\* marker, the first three components, and the last component as the file
\* holds it (ds[1]) followed by the decimal text expected after 1, 2 and 3
\* bumps; the text after the version.
GoodRecs ==
  { [pre |-> <<" ", " ">>, abc |-> <<"0", ".", "0", ".", "0">>,
     ds |-> << <<"9", "9">>, <<"1", "0", "0">>, <<"1", "0", "1">>,
               <<"1", "0", "2">> >>, suf |-> CloseTag],
    [pre |-> <<>>, abc |-> <<"1", "0", ".", "0", ".", "1", "2">>,
     ds |-> << <<"0", "0", "7">>, <<"8">>, <<"9">>, <<"1", "0">> >>,
     suf |-> <<>>] }

Render(r, k) == r.pre \o Marker \o r.abc \o <<Dot>> \o r.ds[k] \o r.suf

\* A marker line on which the version text occurs twice.
DupRec ==
  [pre |-> <<>>, abc |-> <<"1", ".", "2", ".", "3">>,
   ds |-> << <<"4">>, <<"5">>, <<"6">>, <<"7">> >>,
   mid |-> CloseTag \o <<" ">>, suf |-> <<"!">>]

RenderDup(k1, k2) ==
  DupRec.pre \o Marker \o DupRec.abc \o <<Dot>> \o DupRec.ds[k1] \o DupRec.mid
    \o DupRec.abc \o <<Dot>> \o DupRec.ds[k2] \o DupRec.suf

\* Marker lines whose version text is not four non-empty digit groups.
OddTexts ==
  { Marker \o <<"1", "2", "3">> \o CloseTag,
    Marker \o <<"1", ".", ".", "3", ".", "4">> \o CloseTag,
    Marker \o <<".", "1", ".", "2", ".", "3">> \o CloseTag,
    Marker \o <<"1", ".", "2", ".", "3", ".">> \o CloseTag }

\* Lines without the marker.
PlainTexts ==
  { <<"1", ".", "2", ".", "3", ".", "4">> }

LineTexts ==
  {Render(r, 1) : r \in GoodRecs} \cup {RenderDup(1, 1)}
    \cup OddTexts \cup PlainTexts

Terminators == { <<LF>>, <<CR, LF>> }

\* The bytes of a file whose lines are ts, each ended by term, the last one
\* only when lastTerm.
RECURSIVE FileOf(_, _, _)
FileOf(ts, term, lastTerm) ==
  IF Len(ts) = 0 THEN <<>>
  ELSE IF Len(ts) = 1 THEN ts[1] \o (IF lastTerm THEN term ELSE <<>>)
  ELSE ts[1] \o term \o FileOf(Tail(ts), term, lastTerm)

InputFiles ==
  { FileOf(ts, term, lastTerm) :
      ts \in UNION { [1..n -> LineTexts] : n \in 0..MaxLines },
      term \in Terminators, lastTerm \in BOOLEAN }

\* ------------------------------------------------------------- state ----
VARIABLES
  disk,        \* bytes of Directory.Build.props
  exists,      \* whether the file exists
  linesep,     \* os.linesep of the platform
  pc,          \* position of the script
  lines,       \* the list f.readlines() returned
  idx,         \* index of the next line of the for loop
  data,        \* the global list `data`
  wi,          \* index of the next line of the write loop
  packOutcome, \* what "dotnet pack" did in this run
  packCount,   \* number of subprocess.run calls in this run
  printed,     \* whether print("Error:", ...) ran in this run
  err,         \* the unhandled exception that ended this run
  run,         \* number of runs started
  written,     \* number of runs that completed the write block
  orig,        \* bytes of the file before the first run
  origExists,  \* whether the file existed before the first run
  runStart     \* bytes of the file when the current run started

vars == <<disk, exists, linesep, pc, lines, idx, data, wi, packOutcome,
          packCount, printed, err, run, written, orig, origExists, runStart>>

Init ==
  /\ exists \in BOOLEAN
  /\ disk \in (IF exists THEN InputFiles ELSE {<<>>})
  /\ linesep \in Terminators
  /\ pc = "start"
  /\ lines = <<>>
  /\ idx = 1
  /\ data = <<>>
  /\ wi = 1
  /\ packOutcome = "none"
  /\ packCount = 0
  /\ printed = FALSE
  /\ err = "none"
  /\ run = 1
  /\ written = 0
  /\ orig = disk
  /\ origExists = exists
  /\ runStart = disk

\* Variant of OpenRead that opens the file in mode "w+": the file is created
\* or truncated before it is read.
OpenRead_Truncating ==
  /\ pc = "start"
  /\ disk' = <<>>
  /\ exists' = TRUE
  /\ lines' = <<>>
  /\ idx' = 1
  /\ pc' = "scan"
  /\ UNCHANGED <<linesep, data, wi, packOutcome, packCount, printed, err,
                 run, written, orig, origExists, runStart>>

\* with open(..., "r") as f: for line in f.readlines():
OpenRead ==
  /\ pc = "start"
  /\ IF exists
     THEN /\ lines' = ReadLines(disk)
          /\ idx' = 1
          /\ pc' = "scan"
          /\ err' = err
     ELSE /\ pc' = "crashed"
          /\ err' = "FileNotFoundError"
          /\ UNCHANGED <<lines, idx>>
  /\ UNCHANGED <<disk, exists, linesep, data, wi, packOutcome, packCount,
                 printed, run, written, orig, origExists, runStart>>

\* Variant of ScanLine that stops bumping after the first marker line.
ScanLine_FirstOnly ==
  /\ pc = "scan"
  /\ idx <= Len(lines)
  /\ LET r == IF \E k \in 1..Len(data) : Contains(data[k], Marker)
              THEN [err |-> "none", line |-> lines[idx]]
              ELSE ProcessLine(lines[idx])
     IN
     IF r.err = "none"
     THEN /\ data' = Append(data, r.line)
          /\ idx' = idx + 1
          /\ UNCHANGED <<pc, err>>
     ELSE /\ pc' = "crashed"
          /\ err' = r.err
          /\ UNCHANGED <<data, idx>>
  /\ UNCHANGED <<disk, exists, linesep, lines, wi, packOutcome, packCount,
                 printed, run, written, orig, origExists, runStart>>

\* One iteration of the for loop; an exception leaves the with block and
\* ends the script.
ScanLine ==
  /\ pc = "scan"
  /\ idx <= Len(lines)
  /\ LET r == ProcessLine(lines[idx]) IN
     IF r.err = "none"
     THEN /\ data' = Append(data, r.line)
          /\ idx' = idx + 1
          /\ UNCHANGED <<pc, err>>
     ELSE /\ pc' = "crashed"
          /\ err' = r.err
          /\ UNCHANGED <<data, idx>>
  /\ UNCHANGED <<disk, exists, linesep, lines, wi, packOutcome, packCount,
                 printed, run, written, orig, origExists, runStart>>

\* The for loop is exhausted, the read handle is closed and
\* open(..., "w") truncates the file.
OpenWrite ==
  /\ pc = "scan"
  /\ idx > Len(lines)
  /\ disk' = <<>>
  /\ exists' = TRUE
  /\ wi' = 1
  /\ pc' = "write"
  /\ UNCHANGED <<linesep, lines, idx, data, packOutcome, packCount, printed,
                 err, run, written, orig, origExists, runStart>>

\* f.write(line) for one line of data.
WriteLine ==
  /\ pc = "write"
  /\ wi <= Len(data)
  /\ disk' = disk \o Encode(data[wi], linesep)
  /\ wi' = wi + 1
  /\ UNCHANGED <<exists, linesep, pc, lines, idx, data, packOutcome,
                 packCount, printed, err, run, written, orig, origExists,
                 runStart>>

\* The write loop is exhausted and the with block closes the file.
CloseWrite ==
  /\ pc = "write"
  /\ wi > Len(data)
  /\ pc' = "pack"
  /\ written' = written + 1
  /\ UNCHANGED <<disk, exists, linesep, lines, idx, data, wi, packOutcome,
                 packCount, printed, err, run, orig, origExists, runStart>>

\* Variant of Pack that restores the file when the command fails.
Pack_Rollback ==
  /\ pc = "pack"
  /\ \E outcome \in {"ok", "nonzero", "nostart"} :
       /\ packOutcome' = outcome
       /\ packCount' = packCount + 1
       /\ disk' = IF outcome = "ok" THEN disk ELSE runStart
       /\ LET raised == RunRaises(outcome) IN
          IF raised = "none"
          THEN /\ pc' = "done"
               /\ UNCHANGED <<printed, err>>
          ELSE /\ pc' = "crashed"
               /\ err' = raised
               /\ printed' = printed
  /\ UNCHANGED <<exists, linesep, lines, idx, data, wi, run, written,
                 orig, origExists, runStart>>

\* try: subprocess.run(["dotnet", "pack"], cwd=project_root)
\* except subprocess.CalledProcessError as e: print("Error:", e.stderr)
Pack ==
  /\ pc = "pack"
  /\ \E outcome \in {"ok", "nonzero", "nostart"} :
       /\ packOutcome' = outcome
       /\ packCount' = packCount + 1
       /\ LET raised == RunRaises(outcome) IN
          IF raised = "CalledProcessError"
          THEN /\ printed' = TRUE
               /\ pc' = "done"
               /\ err' = err
          ELSE IF raised = "none"
          THEN /\ pc' = "done"
               /\ UNCHANGED <<printed, err>>
          ELSE /\ pc' = "crashed"
               /\ err' = raised
               /\ printed' = printed
  /\ UNCHANGED <<disk, exists, linesep, lines, idx, data, wi, run, written,
                 orig, origExists, runStart>>

\* The script is started again after it ended.
Rerun ==
  /\ pc \in {"done", "crashed"}
  /\ run < MaxRuns
  /\ run' = run + 1
  /\ pc' = "start"
  /\ lines' = <<>>
  /\ idx' = 1
  /\ data' = <<>>
  /\ wi' = 1
  /\ packOutcome' = "none"
  /\ packCount' = 0
  /\ printed' = FALSE
  /\ err' = "none"
  /\ runStart' = disk
  /\ UNCHANGED <<disk, exists, linesep, written, orig, origExists>>

Next ==
  \/ OpenRead
  \/ ScanLine
  \/ OpenWrite
  \/ WriteLine
  \/ CloseWrite
  \/ Pack
  \/ Rerun

Spec == Init /\ [][Next]_vars

TypeOK ==
  /\ pc \in {"start", "scan", "write", "pack", "done", "crashed"}
  /\ packOutcome \in {"none", "ok", "nonzero", "nostart"}
  /\ run \in 1..MaxRuns
  /\ written \in 0..run

\* ------------------------------------------------- derived quantities ---
\* A line without its trailing "\n".
TextOf(line) ==
  IF Len(line) > 0 /\ line[Len(line)] = LF
  THEN SubSeq(line, 1, Len(line) - 1) ELSE line

OrigLines == ReadLines(orig)
StartLines == ReadLines(runStart)
DiskLines == ReadLines(disk)

MarkerIdx(ls) == { i \in 1..Len(ls) : Contains(ls[i], Marker) }

FirstMarker(ls) == CHOOSE i \in MarkerIdx(ls) : \A j \in MarkerIdx(ls) : i <= j

\* The file is closed and holds the result of `written` completed rewrites.
Stable == pc # "write"

\* The physical lines of a byte sequence, each with its own terminator bytes
\* ("\r\n", "\r" or "\n").
RECURSIVE RawLines(_)
RawLines(b) ==
  LET at == { i \in 1..Len(b) : b[i] \in {CR, LF} } IN
  IF Len(b) = 0 THEN <<>>
  ELSE IF at = {} THEN <<b>>
  ELSE LET i == CHOOSE i \in at : \A j \in at : i <= j
           e == IF b[i] = CR /\ i < Len(b) /\ b[i + 1] = LF THEN i + 1 ELSE i
       IN <<SubSeq(b, 1, e)>> \o RawLines(SubSeq(b, e + 1, Len(b)))

\* s holds, from index i on, four non-empty digit groups separated by dots.
StrictAt(s, i) ==
  LET j1 == DigitsEnd(s, i)
      j2 == DigitsEnd(s, j1 + 1)
      j3 == DigitsEnd(s, j2 + 1)
  IN /\ j1 > i /\ IsDotAt(s, j1)
     /\ j2 > j1 + 1 /\ IsDotAt(s, j2)
     /\ j3 > j2 + 1 /\ IsDotAt(s, j3)
     /\ DigitsEnd(s, j3 + 1) > j3 + 1

HasStrictVersion(s) == \E i \in 1..Len(s) : StrictAt(s, i)

\* The bytes the write block produces for the whole of data.
RECURSIVE EncodeAll(_, _)
EncodeAll(ls, sep) ==
  IF Len(ls) = 0 THEN <<>>
  ELSE Encode(ls[1], sep) \o EncodeAll(Tail(ls), sep)

\* ------------------------------------------------------------ claims ----

\* C1: when the file has a single marker line and that line holds exactly
\* one well-formed version a.b.c.d, after one completed run the line on disk
\* reads a.b.c.(d+1): d+1 in plain decimal (0.0.0.99 -> 0.0.0.100,
\* 10.0.12.007 -> 10.0.12.8), a, b, c and the text around the version as
\* before.
C1_BumpLast ==
  (Stable /\ written = 1) =>
    LET ol == OrigLines
        dl == DiskLines
        mi == MarkerIdx(ol)
    IN Cardinality(mi) = 1 =>
         \A i \in mi : \A r \in GoodRecs :
           TextOf(ol[i]) = Render(r, 1) =>
             /\ i <= Len(dl)
             /\ TextOf(dl[i]) = Render(r, 2)

C1_Witness ==
  /\ pc = "done"
  /\ written = 1
  /\ LET ol == OrigLines
         dl == DiskLines
         mi == MarkerIdx(ol)
     IN /\ Len(ol) = 2
        /\ Cardinality(mi) = 1
        /\ \E i \in mi : \E r \in GoodRecs :
             /\ r.ds[1] = <<"9", "9">>
             /\ TextOf(ol[i]) = Render(r, 1)
             /\ TextOf(dl[i]) = Render(r, 2)

\* C2 as stated: after a completed run every marker line after the first
\* one holds the text it had in the input.
C2_Original ==
  (Stable /\ written = 1) =>
    LET ol == OrigLines
        dl == DiskLines
        mi == MarkerIdx(ol)
    IN \A i \in mi :
         i > FirstMarker(ol) =>
           /\ i <= Len(dl)
           /\ TextOf(dl[i]) = TextOf(ol[i])

\* C2 amended: every marker line is modified, not only the first: in a file
\* with two or more marker lines on which the run completes, each marker
\* line that holds exactly one well-formed version a.b.c.d, the first and
\* every later one, is written back with a.b.c.(d+1).
C2_EveryMarkerLine ==
  (Stable /\ written = 1) =>
    LET ol == OrigLines
        dl == DiskLines
        mi == MarkerIdx(ol)
    IN Cardinality(mi) >= 2 =>
         \A i \in mi : \A r \in GoodRecs :
           TextOf(ol[i]) = Render(r, 1) =>
             /\ i <= Len(dl)
             /\ TextOf(dl[i]) = Render(r, 2)

C2_Witness ==
  /\ pc = "done"
  /\ written = 1
  /\ LET ol == OrigLines
         dl == DiskLines
     IN /\ MarkerIdx(ol) = {1, 2}
        /\ \E r1 \in GoodRecs : \E r2 \in GoodRecs :
             /\ TextOf(ol[1]) = Render(r1, 1)
             /\ TextOf(ol[2]) = Render(r2, 1)
             /\ TextOf(dl[1]) = Render(r1, 2)
             /\ TextOf(dl[2]) = Render(r2, 2)

\* C3 as stated: after a completed run the file has as many lines as the
\* input, and every line without the marker has the bytes of the input line
\* at the same position, terminator included.
C3_Original ==
  (Stable /\ written = 1) =>
    LET ro == RawLines(orig)
        rd == RawLines(disk)
    IN /\ Len(rd) = Len(ro)
       /\ \A i \in 1..Len(ro) :
            ~Contains(ro[i], Marker) => rd[i] = ro[i]

\* C4 as stated: when no line of the file contains the marker the run does
\* not terminate normally and the packaging command is not invoked.
C4_Original ==
  (exists /\ MarkerIdx(StartLines) = {}) =>
    /\ pc # "done"
    /\ packCount = 0

\* C4 amended: when no line of the file contains the marker the run is a
\* silent no-op on the version, not a failure: the scan raises nothing and
\* changes no line, the file is rewritten with the lines it had, and the run
\* goes on to the packaging command.
C4_SilentNoOp ==
  LET sl == StartLines IN
  (exists /\ MarkerIdx(sl) = {}) =>
    /\ err \notin {"AttributeError", "ValueError"}
    /\ pc = "scan" => data = SubSeq(lines, 1, idx - 1)
    /\ pc \in {"pack", "done", "crashed"} =>
         /\ DiskLines = sl
         /\ packCount = (IF pc = "pack" THEN 0 ELSE 1)

C4_Witness ==
  /\ origExists
  /\ pc = "done"
  /\ packCount = 1
  /\ LET sl == StartLines
     IN /\ Len(sl) = 2
        /\ MarkerIdx(sl) = {}
        /\ DiskLines = sl

\* C5 as stated: a marker line whose version text is not four non-empty
\* digit groups separated by three dots makes the run fail at that line, so
\* such a line is never processed into data.
C5_Original ==
  \A k \in 1..Len(data) :
    Contains(lines[k], Marker) => HasStrictVersion(lines[k])

C7_Original ==
  packOutcome \in {"nonzero", "nostart"} =>
    /\ printed
    /\ pc = "done"

\* C8: the packaging command is invoked at most once per run, only when the
\* file holds every line of data (the completed rewrite), and from its
\* invocation to the end of the run the file does not change.
C8_PackAfterWrite ==
  /\ [](/\ packCount <= 1
        /\ packCount = 1 =>
             /\ written >= 1
             /\ Len(data) = Len(lines)
             /\ disk = EncodeAll(data, linesep))
  /\ [][packCount' = 1 =>
         (disk' = disk /\ (packCount = 0 => pc = "pack"))]_vars

C8_Witness ==
  /\ packCount = 1
  /\ packOutcome = "nonzero"
  /\ pc = "done"
  /\ disk # runStart
  /\ LET sl == StartLines
         dl == DiskLines
     IN \E i \in MarkerIdx(sl) : \E r \in GoodRecs :
          /\ TextOf(sl[i]) = Render(r, 1)
          /\ TextOf(dl[i]) = Render(r, 2)

C10_Original ==
  (Stable /\ written = 1) =>
    LET ol == OrigLines
        dl == DiskLines
    IN \A i \in 1..Len(ol) :
         TextOf(ol[i]) = RenderDup(1, 1) =>
           /\ i <= Len(dl)
           /\ TextOf(dl[i]) = RenderDup(2, 1)

\* C10 amended: within the modified marker line the old matched version
\* text is replaced by the new one at every occurrence: when it occurs twice
\* on the line, both occurrences are written back as the new version.
C10_EveryOccurrence ==
  (Stable /\ written = 1) =>
    LET ol == OrigLines
        dl == DiskLines
    IN \A i \in 1..Len(ol) :
         TextOf(ol[i]) = RenderDup(1, 1) =>
           /\ i <= Len(dl)
           /\ TextOf(dl[i]) = RenderDup(2, 2)

C10_Witness ==
  /\ pc = "done"
  /\ written = 1
  /\ LET ol == OrigLines
         dl == DiskLines
     IN \E i \in 1..Len(ol) :
          /\ TextOf(ol[i]) = RenderDup(1, 1)
          /\ TextOf(dl[i]) = RenderDup(2, 2)

====
